---- MODULE Spec2Model ----
(***************************************************************************)
(* PerformanceProfiler (clarity-js performance plugin).                    *)
(*                                                                         *)
(* The plugin runs two self-rescheduling timer callbacks:                  *)
(*   logTiming          reports performance.timing once loadEventEnd > 0   *)
(*   logResourceTiming  reconciles the list of resource timing entries,    *)
(*                      addressed by index, with a watermark               *)
(*                      (lastInspectedEntryIndex) and a revisit queue      *)
(*                      (incompleteEntryIndices).                          *)
(*                                                                         *)
(* All times are integers in units of half a millisecond, so that          *)
(* Math.round is a real conversion: Round(h) is the integer millisecond    *)
(* nearest to h/2, ties upward, as Math.round does.                        *)
(*                                                                         *)
(* A timer handle field (logTimingTimeout, logResourceTimingTimeout) holds *)
(* one timer id. The ids themselves are abstracted: a handle is "pending"  *)
(* (names a timer that has not fired) or "idle" (undefined, or the id of a *)
(* timer that fired or was cleared: clearTimeout ignores both); timers     *)
(* that are pending but whose id was overwritten in the field are counted  *)
(* in navLeaked and resLeaked: clearTimeout(field) cannot reach them.      *)
(***************************************************************************)
EXTENDS Integers, Sequences, FiniteSets

\* ---------------------------------------------------------------- bounds
\* Longest list of resource entries the timing source returns.
MaxLen == 3
\* Most pending timers per poller whose id no field holds any more.
MaxLeaked == 1

\* ------------------------------------------------------------------ URLs
\* A URL is [origin, path]; a relative URL has the empty origin.
DocumentOrigin == "https://page"
Rel(p) == [origin |-> "", path |-> p]
Abs(p) == [origin |-> DocumentOrigin, path |-> p]

\* getFullUrl: an anchor element resolves its href against the document.
getFullUrl(partialUrl) ==
  IF partialUrl.origin = ""
    THEN [origin |-> DocumentOrigin, path |-> partialUrl.path]
    ELSE partialUrl

\* Configurations the page may start the library with (config.urlBlacklist,
\* config.uploadUrl), relative or absolute.
Configs ==
  { [urlBlacklist |-> <<>>, uploadUrl |-> Rel("b")],
    [urlBlacklist |-> <<Rel("b")>>, uploadUrl |-> Abs("u")] }

\* Names the timing source reports: always fully qualified.
EntryNames == { Abs("a"), Abs("b") }
\* responseEnd in half-milliseconds: 0 = still loading, 101 = 50.5 ms.
ResponseEnds == { 0, 101 }

\* ------------------------------------------------------------- utilities
Round(h) == (h + 1) \div 2
\* The sink's counters count 0, 1, many: 2 stands for "two or more".
AddCapped(n, m) == IF n + m >= 2 THEN 2 ELSE n + m
Bump(n) == AddCapped(n, 1)
Range(s) == { s[k] : k \in DOMAIN s }
Indices == 0 .. (MaxLen - 1)

\* entries[entryIndex] of a JavaScript array: undefined beyond the end.
Undefined == [name |-> Rel(""), responseEnd |-> 0]
EntryAt(list, entryIndex) ==
  IF entryIndex >= 0 /\ entryIndex < Len(list) THEN list[entryIndex + 1] ELSE Undefined

VARIABLES
  \* the page: configuration and the browser's performance object
  config,            \* [urlBlacklist, uploadUrl]
  capTiming,         \* window.performance.timing exists
  capEntries,        \* performance.getEntriesByType is a function
  perfTiming,        \* performance.timing: [navigationStart, fetchStart, loadEventEnd]
  entries,           \* performance.getEntriesByType("resource")
  \* PerformanceProfiler fields
  urlBlacklist,
  lastInspectedEntryIndex,
  logTimingTimeout,
  logResourceTimingTimeout,
  stateError,
  incompleteEntryIndices,
  timing,            \* this.timing is set
  getEntriesByType,  \* this.getEntriesByType is set
  \* pending timers whose id no field holds
  navLeaked,
  resLeaked,
  \* the event sink, as an observer of the last step sees it
  cycle,             \* the step was a logResourceTiming cycle: its inspections, in order
  cycleInfo,         \* the step was a logResourceTiming cycle: what it started from and did
  \* the event sink, as an observer of the session (since reset()) sees it
  navRecord,         \* state.timing of the last NavigationTiming event
  navEvents,         \* NavigationTiming events: 0, 1, many
  errorEvents,       \* PerformanceStateError events: 0, 1, many
  truncPolls,        \* cycles that saw length < lastInspectedEntryIndex + 1: 0, 1, many
  emitCount,         \* ResourceTiming events per index while the list only grew: 0, 1, many;
                     \* a cleared list keeps that of index 0, up to the next cycle
  lastIncomplete,    \* indices the last cycle inspected and found incomplete
  cleared            \* the source list was cleared

vars == << config, capTiming, capEntries, perfTiming, entries, urlBlacklist,
           lastInspectedEntryIndex, logTimingTimeout, logResourceTimingTimeout,
           stateError, incompleteEntryIndices, timing, getEntriesByType,
           navLeaked, resLeaked, cycle, cycleInfo, navRecord, navEvents,
           errorEvents, truncPolls, emitCount, lastIncomplete, cleared >>

pageVars == << config, capTiming, capEntries >>
capVars == << timing, getEntriesByType >>
reconVars == << urlBlacklist, lastInspectedEntryIndex, stateError, incompleteEntryIndices >>
navTimerVars == << logTimingTimeout, navLeaked >>
resTimerVars == << logResourceTimingTimeout, resLeaked >>
navSinkVars == << navRecord, navEvents >>
resSinkVars == << errorEvents, truncPolls, emitCount, lastIncomplete >>

TimingFields == { "navigationStart", "fetchStart", "loadEventEnd" }

NoCycle == [ran |-> FALSE, truncated |-> FALSE, stateError |-> FALSE,
            queue |-> <<>>, watermark |-> -1, prevIncomplete |-> {},
            emittedFirst |-> FALSE]
NoRecord == [f \in TimingFields |-> 0]

\* ------------------------------------------------------- the timing source
\* performance.timing in half-milliseconds; the load event has not ended.
InitialTimings ==
  { [navigationStart |-> ns, fetchStart |-> fs, loadEventEnd |-> 0] :
      ns \in { 0, 401 }, fs \in { 0, 398, 404 } }
LoadEventEnds == { 440, 641 }

\* --------------------------------------------------------------- inspectEntry
NullData == [name |-> Rel(""), responseEnd |-> 0]

\* The record built for a complete entry: mapProperties rounds every number.
NetworkData(entry) == [name |-> entry.name, responseEnd |-> Round(entry.responseEnd)]

Inspection(entryIndex, pass, outcome, data) ==
  [index |-> entryIndex, pass |-> pass, outcome |-> outcome, data |-> data]

\* Variant: a complete entry is emitted and also queued for another visit.
inspectEntryRequeues(entry, entryIndex, pass, blacklist, st) ==
  IF entry # Undefined /\ entry.responseEnd > 0
    THEN IF entry.name \notin Range(blacklist)
           THEN [st EXCEPT !.incomplete = Append(@, entryIndex),
                           !.log = Append(@, Inspection(entryIndex, pass, "emitted",
                                                        NetworkData(entry)))]
           ELSE [st EXCEPT !.log =
                   Append(@, Inspection(entryIndex, pass, "blacklisted", NullData))]
    ELSE [st EXCEPT !.incomplete = Append(@, entryIndex),
                    !.log = Append(@, Inspection(entryIndex, pass, "incomplete", NullData))]

\* Variant: the blacklist is consulted before completeness, so a blacklisted
\* entry is dropped without ever being queued.
inspectEntryBlacklistFirst(entry, entryIndex, pass, blacklist, st) ==
  IF entry # Undefined /\ entry.name \in Range(blacklist)
    THEN [st EXCEPT !.log =
            Append(@, Inspection(entryIndex, pass, "blacklisted", NullData))]
    ELSE IF entry # Undefined /\ entry.responseEnd > 0
           THEN [st EXCEPT !.log =
                   Append(@, Inspection(entryIndex, pass, "emitted", NetworkData(entry)))]
           ELSE [st EXCEPT !.incomplete = Append(@, entryIndex),
                           !.log = Append(@, Inspection(entryIndex, pass, "incomplete",
                                                        NullData))]

\* st.incomplete is this.incompleteEntryIndices; st.log is what the caller
\* hands to addEvent (outcome "emitted") and what it drops.
inspectEntry(entry, entryIndex, pass, blacklist, st) ==
  IF entry # Undefined /\ entry.responseEnd > 0
    THEN IF entry.name \notin Range(blacklist)
           THEN [st EXCEPT !.log =
                   Append(@, Inspection(entryIndex, pass, "emitted", NetworkData(entry)))]
           ELSE [st EXCEPT !.log =
                   Append(@, Inspection(entryIndex, pass, "blacklisted", NullData))]
    ELSE [st EXCEPT !.incomplete = Append(@, entryIndex),
                    !.log = Append(@, Inspection(entryIndex, pass, "incomplete", NullData))]

\* ---------------------------------------------------------- logResourceTiming
\* Lines 92-100: the list is shorter than what was inspected.
\* Variant: a list that did not grow counts as truncated.
TruncatedOffByOne(list, last) == Len(list) <= last + 1

Truncated(list, last) == Len(list) < last + 1

\* Variant: the error event is added at every truncation.
RaiseStateErrorEveryTime(truncated, flag) == truncated

\* Lines 93-96: the error event is added when the flag is not yet set.
RaiseStateError(truncated, flag) == truncated /\ ~flag

\* Variant: a truncation clears the queue and keeps the watermark.
TruncationCheckKeepsWatermark(list, last, incomplete) ==
  IF Truncated(list, last)
    THEN [last |-> last, incomplete |-> <<>>]
    ELSE [last |-> last, incomplete |-> incomplete]

\* Variant: a truncation rewinds the watermark and keeps the queue.
TruncationCheckKeepsQueue(list, last, incomplete) ==
  IF Truncated(list, last)
    THEN [last |-> -1, incomplete |-> incomplete]
    ELSE [last |-> last, incomplete |-> incomplete]

TruncationCheck(list, last, incomplete) ==
  IF Truncated(list, last)
    THEN [last |-> -1, incomplete |-> <<>>]
    ELSE [last |-> last, incomplete |-> incomplete]

\* Lines 107-113: revisit the copy of the queue, in its order, from position i.
RECURSIVE RevisitPass(_, _, _, _, _)
RevisitPass(i, copy, list, blacklist, st) ==
  IF i >= Len(copy)
    THEN st
    ELSE RevisitPass(i + 1, copy, list, blacklist,
           inspectEntry(EntryAt(list, copy[i + 1]), copy[i + 1], "revisit", blacklist, st))

\* Variant: the watermark stops at the first incomplete fresh entry.
RECURSIVE FreshPassHoldsBack(_, _, _, _)
FreshPassHoldsBack(i, list, blacklist, st) ==
  IF i >= Len(list) \/ ~(EntryAt(list, i).responseEnd > 0)
    THEN st
    ELSE FreshPassHoldsBack(i + 1, list, blacklist,
           [inspectEntry(EntryAt(list, i), i, "fresh", blacklist, st) EXCEPT !.last = i])

\* Lines 116-122: inspect the fresh entries from index i, advancing the watermark.
RECURSIVE FreshPass(_, _, _, _)
FreshPass(i, list, blacklist, st) ==
  IF i >= Len(list)
    THEN st
    ELSE FreshPass(i + 1, list, blacklist,
           [inspectEntry(EntryAt(list, i), i, "fresh", blacklist, st) EXCEPT !.last = i])

\* Variant: the queue is cleared without being revisited.
ReconcileNoRevisit(list, last, incomplete, blacklist) ==
  LET t == TruncationCheck(list, last, incomplete)
      s0 == [incomplete |-> <<>>, last |-> t.last, log |-> <<>>]
  IN FreshPass(s0.last + 1, list, blacklist, s0)

\* Variant: the fresh entries are inspected before the queue is revisited.
ReconcileFreshFirst(list, last, incomplete, blacklist) ==
  LET t == TruncationCheck(list, last, incomplete)
      copy == t.incomplete
      s0 == [incomplete |-> <<>>, last |-> t.last, log |-> <<>>]
      s1 == FreshPass(s0.last + 1, list, blacklist, s0)
  IN RevisitPass(0, copy, list, blacklist, s1)

\* Variant: the queue is copied and not cleared before the revisit.
ReconcileKeepsQueue(list, last, incomplete, blacklist) ==
  LET t == TruncationCheck(list, last, incomplete)
      copy == t.incomplete
      s0 == [incomplete |-> copy, last |-> t.last, log |-> <<>>]
      s1 == RevisitPass(0, copy, list, blacklist, s0)
  IN FreshPass(s1.last + 1, list, blacklist, s1)

\* Variant: no queue; every cycle scans again from index 0 and leaves the
\* watermark before the first entry that is not complete.
ReconcileRescans(list, last, incomplete, blacklist) ==
  FreshPassHoldsBack(0, list, blacklist, [incomplete |-> <<>>, last |-> -1, log |-> <<>>])

\* One whole cycle over `list`: the state it leaves and the inspections it made.
Reconcile(list, last, incomplete, blacklist) ==
  LET t == TruncationCheck(list, last, incomplete)
      copy == t.incomplete
      s0 == [incomplete |-> <<>>, last |-> t.last, log |-> <<>>]
      s1 == RevisitPass(0, copy, list, blacklist, s0)
  IN FreshPass(s1.last + 1, list, blacklist, s1)

\* ------------------------------------------------------------------- logTiming
\* Variant: a raw 0 is not special.
TimingDeltaNoZero(formattedTiming, name) ==
  Round(formattedTiming[name] - formattedTiming["navigationStart"])

\* The callback given to mapProperties (line 75).
TimingDelta(formattedTiming, name) ==
  IF formattedTiming[name] = 0
    THEN 0
    ELSE Round(formattedTiming[name] - formattedTiming["navigationStart"])

\* mapProperties(obj, fn, false): a new object that holds, for every property
\* of obj, what fn returned for it; obj itself is left as it was.
mapProperties(obj, returned) == [name \in DOMAIN obj |-> returned[name]]

FormatTiming(t) == mapProperties(t, [name \in DOMAIN t |-> TimingDelta(t, name)])

\* ----------------------------------------------------------------------- reset
\* Variant: the configured URLs are kept as written, unresolved.
ResetBlacklistUnresolved(cfg) == Append(cfg.urlBlacklist, cfg.uploadUrl)

\* Lines 51-55: the configured URLs, resolved, then the upload URL, resolved.
ResetBlacklist(cfg) ==
  Append([k \in DOMAIN cfg.urlBlacklist |-> getFullUrl(cfg.urlBlacklist[k])],
         getFullUrl(cfg.uploadUrl))

\* ------------------------------------------------------------------ timers
\* window.setTimeout stored in a handle field: a timer the field named and
\* that is still pending stays pending, and no field names it any more.
LeakOnSet(handle, leaked) == IF handle = "pending" THEN leaked + 1 ELSE leaked

\* clearTimeout(handle): cancels the timer the field names, if it is pending.
ClearTimeout(handle) == "idle"

Pending(handle, leaked) == leaked + (IF handle = "pending" THEN 1 ELSE 0)

\* ------------------------------------------------------------------ state
\* The field is declared without a value: undefined until reset().
NotSet == -2

\* After construction: stateError = false and incompleteEntryIndices = [] are
\* the only initialised fields. The page's configuration and the browser's
\* capabilities are fixed for the page's life.
InitProfiler ==
  /\ urlBlacklist = <<>>
  /\ lastInspectedEntryIndex = NotSet
  /\ logTimingTimeout = "idle"
  /\ logResourceTimingTimeout = "idle"
  /\ stateError = FALSE
  /\ incompleteEntryIndices = <<>>
  /\ timing = FALSE
  /\ getEntriesByType = FALSE
  /\ navLeaked = 0
  /\ resLeaked = 0

InitSink ==
  /\ cycle = <<>>
  /\ cycleInfo = NoCycle
  /\ navRecord = NoRecord
  /\ navEvents = 0
  /\ errorEvents = 0
  /\ truncPolls = 0
  /\ emitCount = [i \in Indices |-> 0]
  /\ lastIncomplete = {}
  /\ cleared = FALSE

Init ==
  /\ config \in Configs
  /\ capTiming \in BOOLEAN
  /\ capEntries \in BOOLEAN
  /\ perfTiming \in (IF capTiming THEN InitialTimings ELSE { NoRecord })
  /\ entries = <<>>
  /\ InitProfiler
  /\ InitSink

\* The step is no logResourceTiming cycle.
NoCycleOutput ==
  /\ cycle' = <<>>
  /\ cycleInfo' = NoCycle

\* ------------------------------------------------------------ the page acts
\* A resource starts loading (responseEnd = 0) or is reported already complete.
AddEntry ==
  /\ Len(entries) < MaxLen
  /\ \E n \in EntryNames, r \in ResponseEnds :
       entries' = Append(entries, [name |-> n, responseEnd |-> r])
  /\ NoCycleOutput
  /\ UNCHANGED << pageVars, perfTiming, reconVars, capVars, navTimerVars,
                  resTimerVars, navSinkVars, resSinkVars, cleared >>

\* A resource that was loading finishes.
CompleteEntry ==
  /\ \E k \in DOMAIN entries, r \in ResponseEnds :
       /\ entries[k].responseEnd = 0
       /\ r > 0
       /\ entries' = [entries EXCEPT ![k].responseEnd = r]
  /\ NoCycleOutput
  /\ UNCHANGED << pageVars, perfTiming, reconVars, capVars, navTimerVars,
                  resTimerVars, navSinkVars, resSinkVars, cleared >>

\* performance.clearResourceTimings(): the list starts again from nothing.
\* Of the events counted so far, the next cycle is told about index 0, the
\* index every list has that is not empty.
ClearResourceTimings ==
  /\ entries # <<>>
  /\ entries' = <<>>
  /\ cleared' = TRUE
  /\ emitCount' = [i \in Indices |-> IF i = 0 THEN emitCount[0] ELSE 0]
  /\ NoCycleOutput
  /\ UNCHANGED << pageVars, perfTiming, reconVars, capVars, navTimerVars,
                  resTimerVars, navSinkVars, errorEvents, truncPolls, lastIncomplete >>

\* The page's load event ends.
LoadEventEnd ==
  /\ capTiming
  /\ perfTiming.loadEventEnd = 0
  /\ \E v \in LoadEventEnds : perfTiming' = [perfTiming EXCEPT !.loadEventEnd = v]
  /\ NoCycleOutput
  /\ UNCHANGED << pageVars, entries, reconVars, capVars, navTimerVars,
                  resTimerVars, navSinkVars, resSinkVars, cleared >>

\* ------------------------------------------------------------- the plugin
reset ==
  /\ lastInspectedEntryIndex' = -1
  /\ stateError' = FALSE
  /\ incompleteEntryIndices' = <<>>
  /\ urlBlacklist' = ResetBlacklist(config)
  /\ timing' = capTiming
  /\ getEntriesByType' = capEntries
  /\ NoCycleOutput
  /\ navRecord' = NoRecord
  /\ navEvents' = 0
  /\ errorEvents' = 0
  /\ truncPolls' = 0
  /\ emitCount' = [i \in Indices |-> 0]
  /\ lastIncomplete' = {}
  /\ cleared' = FALSE
  /\ UNCHANGED << pageVars, perfTiming, entries, navTimerVars, resTimerVars >>

\* Variant: both timers are started whatever the browser offers.
activateUnguarded ==
  /\ Pending(logTimingTimeout, navLeaked) <= MaxLeaked
  /\ Pending(logResourceTimingTimeout, resLeaked) <= MaxLeaked
  /\ navLeaked' = LeakOnSet(logTimingTimeout, navLeaked)
  /\ logTimingTimeout' = "pending"
  /\ resLeaked' = LeakOnSet(logResourceTimingTimeout, resLeaked)
  /\ logResourceTimingTimeout' = "pending"
  /\ NoCycleOutput
  /\ UNCHANGED << pageVars, perfTiming, entries, reconVars, capVars,
                  navSinkVars, resSinkVars, cleared >>

activate ==
  /\ Pending(logTimingTimeout, navLeaked) <= MaxLeaked
  /\ Pending(logResourceTimingTimeout, resLeaked) <= MaxLeaked
  /\ IF timing
       THEN /\ navLeaked' = LeakOnSet(logTimingTimeout, navLeaked)
            /\ logTimingTimeout' = "pending"
       ELSE UNCHANGED << navLeaked, logTimingTimeout >>
  /\ IF getEntriesByType
       THEN /\ resLeaked' = LeakOnSet(logResourceTimingTimeout, resLeaked)
            /\ logResourceTimingTimeout' = "pending"
       ELSE UNCHANGED << resLeaked, logResourceTimingTimeout >>
  /\ NoCycleOutput
  /\ UNCHANGED << pageVars, perfTiming, entries, reconVars, capVars,
                  navSinkVars, resSinkVars, cleared >>

teardown ==
  /\ logTimingTimeout' = ClearTimeout(logTimingTimeout)
  /\ logResourceTimingTimeout' = ClearTimeout(logResourceTimingTimeout)
  /\ NoCycleOutput
  /\ UNCHANGED << pageVars, perfTiming, entries, reconVars, capVars,
                  navLeaked, resLeaked, navSinkVars, resSinkVars, cleared >>

\* ------------------------------------------------------------- the callbacks
\* What the sink counts from the inspections of one cycle.
EmittedFor(log, i) ==
  Cardinality({ k \in DOMAIN log : log[k].index = i /\ log[k].outcome = "emitted" })

FoundIncomplete(log) ==
  { log[k].index : k \in { j \in DOMAIN log : log[j].outcome = "incomplete" } }

\* logTiming, run by a timer that left the handle field as `handle` and the
\* unnamed pending timers as `leaked`.
logTiming(handle, leaked) ==
  /\ timing
  /\ IF perfTiming.loadEventEnd > 0
       THEN /\ navRecord' = FormatTiming(perfTiming)
            /\ navEvents' = Bump(navEvents)
            /\ logTimingTimeout' = handle
            /\ navLeaked' = leaked
       ELSE /\ logTimingTimeout' = "pending"
            /\ navLeaked' = LeakOnSet(handle, leaked)
            /\ UNCHANGED << navRecord, navEvents >>
  /\ NoCycleOutput
  /\ UNCHANGED << pageVars, perfTiming, entries, reconVars, capVars,
                  resTimerVars, resSinkVars, cleared >>

\* logResourceTiming, run by a timer likewise.
logResourceTiming(handle, leaked) ==
  /\ getEntriesByType
  /\ LET truncated == Truncated(entries, lastInspectedEntryIndex)
         raise == RaiseStateError(truncated, stateError)
         st == Reconcile(entries, lastInspectedEntryIndex, incompleteEntryIndices,
                         urlBlacklist)
     IN /\ stateError' = (stateError \/ truncated)
        /\ lastInspectedEntryIndex' = st.last
        /\ incompleteEntryIndices' = st.incomplete
        /\ cycle' = st.log
        /\ cycleInfo' = [ran |-> TRUE, truncated |-> truncated, stateError |-> raise,
                         queue |-> incompleteEntryIndices,
                         watermark |-> lastInspectedEntryIndex,
                         prevIncomplete |-> lastIncomplete,
                         emittedFirst |-> emitCount[0] >= 1]
        /\ errorEvents' = IF raise THEN Bump(errorEvents) ELSE errorEvents
        /\ truncPolls' = IF truncated THEN Bump(truncPolls) ELSE truncPolls
        /\ emitCount' = IF cleared
                          THEN [i \in Indices |-> 0]
                          ELSE [i \in Indices |->
                                  AddCapped(emitCount[i], EmittedFor(st.log, i))]
        /\ lastIncomplete' = FoundIncomplete(st.log)
  /\ logResourceTimingTimeout' = "pending"
  /\ resLeaked' = LeakOnSet(handle, leaked)
  /\ UNCHANGED << pageVars, perfTiming, entries, urlBlacklist, capVars,
                  navTimerVars, navSinkVars, cleared >>

\* A pending timer fires: the one the handle field names, or one it lost.
LogTimingTick ==
  \/ /\ logTimingTimeout = "pending"
     /\ logTiming("idle", navLeaked)
  \/ /\ navLeaked > 0
     /\ logTiming(logTimingTimeout, navLeaked - 1)

LogResourceTimingTick ==
  \/ /\ logResourceTimingTimeout = "pending"
     /\ logResourceTiming("idle", resLeaked)
  \/ /\ resLeaked > 0
     /\ logResourceTiming(logResourceTimingTimeout, resLeaked - 1)

Next ==
  \/ AddEntry
  \/ CompleteEntry
  \/ ClearResourceTimings
  \/ LoadEventEnd
  \/ reset
  \/ activate
  \/ teardown
  \/ LogTimingTick
  \/ LogResourceTimingTick

\* The whole system: both pollers and the page.
Spec == Init /\ [][Next]_vars

\* The plugin's life cycle and both timers, on a page that loads no resource.
NextLifecycle ==
  \/ LoadEventEnd
  \/ reset
  \/ activate
  \/ teardown
  \/ LogTimingTick
  \/ LogResourceTimingTick

SpecLifecycle == Init /\ [][NextLifecycle]_vars

\* A browser with resource timing and no navigation timing: the resource
\* poller alone.
InitResource == Init /\ capEntries /\ ~capTiming

NextResource ==
  \/ AddEntry
  \/ CompleteEntry
  \/ ClearResourceTimings
  \/ reset
  \/ activate
  \/ teardown
  \/ LogResourceTimingTick

SpecResource == InitResource /\ [][NextResource]_vars

\* =================================================================== claims
\* The list the last cycle read is `entries` itself in every state where
\* cycleInfo.ran holds: a cycle leaves the list alone, and every other step
\* clears cycleInfo.

Emittable(list, blacklist, i) ==
  /\ i < Len(list)
  /\ list[i + 1].responseEnd > 0
  /\ list[i + 1].name \notin Range(blacklist)

Blacklisted(list, blacklist, i) ==
  /\ i < Len(list)
  /\ list[i + 1].name \in Range(blacklist)

InspectedIn(log, i) == \E k \in DOMAIN log : log[k].index = i

\* C1: in a session in which the list was never cleared, every index that a
\* cycle reads complete and not blacklisted has exactly one ResourceTiming
\* event in the session, and no index ever has two.
C1_ExactlyOnce ==
  ~cleared =>
    \A i \in Indices :
      /\ emitCount[i] <= 1
      /\ (cycleInfo.ran /\ Emittable(entries, urlBlacklist, i)) => emitCount[i] = 1

\* A cycle emitted a revisited index while another index, emitted by an
\* earlier cycle of the session, was not emitted again.
C1_Witness ==
  /\ ~cleared
  /\ cycleInfo.ran
  /\ \E i, j \in Indices :
       /\ i # j
       /\ emitCount[i] = 1 /\ EmittedFor(cycle, i) = 0
       /\ emitCount[j] = 1 /\ EmittedFor(cycle, j) = 1
       /\ j \in cycleInfo.prevIncomplete

\* C2: in a session, a PerformanceStateError event exists exactly when some
\* cycle saw a truncation, there is exactly one however many cycles saw one,
\* it is emitted by the first such cycle, and stateError is true from then
\* until reset().
C2_SingleStateError ==
  /\ errorEvents = (IF truncPolls >= 1 THEN 1 ELSE 0)
  /\ stateError = (truncPolls >= 1)
  /\ (cycleInfo.ran /\ cycleInfo.truncated) => (cycleInfo.stateError <=> truncPolls = 1)
  /\ (cycleInfo.ran /\ ~cycleInfo.truncated) => ~cycleInfo.stateError

\* The second truncation of a session: seen by the cycle, no second event.
C2_Witness ==
  /\ cycleInfo.ran
  /\ cycleInfo.truncated
  /\ truncPolls = 2
  /\ errorEvents = 1

\* C3 as claimed: a blacklisted entry is never emitted and its index is never
\* in incompleteEntryIndices.
C3_NeverQueued ==
  cycleInfo.ran =>
    \A i \in Indices :
      Blacklisted(entries, urlBlacklist, i) =>
        /\ EmittedFor(cycle, i) = 0
        /\ i \notin Range(incompleteEntryIndices)

\* C3 amended: a blacklisted entry is never emitted; a cycle leaves its index
\* in incompleteEntryIndices exactly when it inspected the entry with
\* responseEnd <= 0, and never when it inspected it with responseEnd > 0.
C3_QueuedOnlyWhileIncomplete ==
  cycleInfo.ran =>
    \A i \in Indices :
      Blacklisted(entries, urlBlacklist, i) =>
        /\ EmittedFor(cycle, i) = 0
        /\ i \in Range(incompleteEntryIndices)
             <=> (InspectedIn(cycle, i) /\ entries[i + 1].responseEnd <= 0)

\* One cycle met a blacklisted entry still loading (queued) and a blacklisted
\* entry that is complete (dropped, not queued).
C3_Witness ==
  /\ cycleInfo.ran
  /\ \E i, j \in Indices :
       /\ Blacklisted(entries, urlBlacklist, i)
       /\ entries[i + 1].responseEnd = 0
       /\ i \in Range(incompleteEntryIndices)
       /\ Blacklisted(entries, urlBlacklist, j)
       /\ entries[j + 1].responseEnd > 0
       /\ InspectedIn(cycle, j)
       /\ j \notin Range(incompleteEntryIndices)

\* C4: an index the previous cycle found incomplete and this cycle reads
\* complete and not blacklisted is emitted exactly once by this cycle; an
\* index a cycle finds incomplete is not emitted by that cycle.
C4_DelayedCompletion ==
  cycleInfo.ran =>
    /\ \A i \in cycleInfo.prevIncomplete :
         Emittable(entries, urlBlacklist, i) => EmittedFor(cycle, i) = 1
    /\ \A i \in lastIncomplete : EmittedFor(cycle, i) = 0

\* Without truncation, a cycle emitted an index the previous cycle had found
\* incomplete, and found another index incomplete.
C4_Witness ==
  /\ cycleInfo.ran
  /\ ~cycleInfo.truncated
  /\ lastIncomplete # {}
  /\ \E i \in cycleInfo.prevIncomplete : EmittedFor(cycle, i) = 1

\* C5: the inspections of a cycle, and so its ResourceTiming events, come in
\* this order: the queue the cycle starts with (empty after a truncation), in
\* queue order, then every fresh index from the watermark + 1 to length - 1,
\* ascending.
C5_Order ==
  cycleInfo.ran =>
    LET q == IF cycleInfo.truncated THEN <<>> ELSE cycleInfo.queue
        w == IF cycleInfo.truncated THEN -1 ELSE cycleInfo.watermark
    IN /\ Len(cycle) = Len(q) + (Len(entries) - (w + 1))
       /\ \A k \in DOMAIN cycle :
            IF k <= Len(q)
              THEN cycle[k].pass = "revisit" /\ cycle[k].index = q[k]
              ELSE cycle[k].pass = "fresh" /\ cycle[k].index = w + (k - Len(q))

\* The revisited index 0 is emitted first, then the fresh indices 1 and 2.
C5_Witness ==
  /\ cycleInfo.ran
  /\ Len(cycle) = 3
  /\ \A k \in 1 .. 3 : cycle[k].outcome = "emitted" /\ cycle[k].index = k - 1
  /\ cycle[1].pass = "revisit"
  /\ cycle[2].pass = "fresh"
  /\ cycle[3].pass = "fresh"

\* C8: when a cycle ends, lastInspectedEntryIndex is length - 1 of the list
\* it read, whether or not it saw a truncation or incomplete entries.
C8_Watermark ==
  cycleInfo.ran => lastInspectedEntryIndex = Len(entries) - 1

\* A cycle that saw a truncation and an incomplete fresh entry before the end.
C8_Witness ==
  /\ cycleInfo.ran
  /\ cycleInfo.truncated
  /\ Len(entries) >= 2
  /\ 0 \in lastIncomplete
  /\ lastInspectedEntryIndex = Len(entries) - 1

\* C9: once reset() has run, urlBlacklist holds the resolved upload URL and
\* every resolved configured URL, and no ResourceTiming event carries one of
\* these names.
C9_Blacklist ==
  lastInspectedEntryIndex # NotSet =>
    LET excluded == { getFullUrl(config.uploadUrl) }
                      \cup { getFullUrl(u) : u \in Range(config.urlBlacklist) }
    IN /\ excluded \subseteq Range(urlBlacklist)
       /\ \A k \in DOMAIN cycle :
            cycle[k].outcome = "emitted" => cycle[k].data.name \notin excluded

\* A cycle dropped a complete entry named as the upload URL, which the
\* configuration gives in relative form, and emitted another.
C9_Witness ==
  /\ cycleInfo.ran
  /\ config.uploadUrl.origin = ""
  /\ \E k \in DOMAIN cycle :
       /\ cycle[k].outcome = "blacklisted"
       /\ EntryAt(entries, cycle[k].index).name = getFullUrl(config.uploadUrl)
  /\ \E k \in DOMAIN cycle : cycle[k].outcome = "emitted"

\* C6 as claimed: a session has at most one NavigationTiming event, and none
\* before the load event has ended.
C6_OneShot ==
  /\ navEvents <= 1
  /\ navEvents >= 1 => perfTiming.loadEventEnd > 0

\* C7 as claimed: teardown() leaves no pending timer of either poller, so no
\* cycle can fire until activate() runs again.
C7_TeardownCancels ==
  [][teardown =>
       /\ Pending(logTimingTimeout', navLeaked') = 0
       /\ Pending(logResourceTimingTimeout', resLeaked') = 0]_vars

\* C10: in the NavigationTiming record every field whose raw value is 0 is 0,
\* every other field is the integer nearest to raw - navigationStart in
\* milliseconds (a tie goes up), and navigationStart itself is 0.
C10_NavigationRecord ==
  navEvents >= 1 =>
    /\ DOMAIN navRecord = TimingFields
    /\ navRecord["navigationStart"] = 0
    /\ \A f \in TimingFields :
         LET raw == perfTiming[f]
             d == raw - perfTiming["navigationStart"]
             out == navRecord[f]
         IN IF raw = 0
              THEN out = 0
              ELSE 2 * out - 1 <= d /\ d < 2 * out + 1

\* A record with a raw 0 (fetchStart) beside a navigationStart of 200.5 ms, a
\* field before navigationStart or after it, and a tie rounded up.
C10_Witness ==
  /\ navEvents >= 1
  /\ perfTiming["navigationStart"] = 401
  /\ perfTiming["fetchStart"] = 0
  /\ navRecord["fetchStart"] = 0
  /\ perfTiming["loadEventEnd"] = 440
  /\ navRecord["loadEventEnd"] = 20

\* C11: a poller whose capability reset() did not find (or that reset() has
\* not looked for yet) has no timer, runs no cycle and emits nothing, no
\* PerformanceStateError is emitted for it, and activate() starts the other
\* poller whenever its capability is there.
C11_MissingCapability ==
  /\ [](~timing => (Pending(logTimingTimeout, navLeaked) = 0 /\ navEvents = 0))
  /\ [](~getEntriesByType =>
          /\ Pending(logResourceTimingTimeout, resLeaked) = 0
          /\ ~cycleInfo.ran
          /\ errorEvents = 0)
  /\ [][activate =>
          /\ (timing => logTimingTimeout' = "pending")
          /\ (getEntriesByType => logResourceTimingTimeout' = "pending")]_vars

\* A browser without performance.timing: after reset() and activate() the
\* resource poller has run a cycle and the navigation poller has no timer.
C11_Witness ==
  /\ ~capTiming
  /\ ~timing
  /\ getEntriesByType
  /\ cycleInfo.ran
  /\ Pending(logTimingTimeout, navLeaked) = 0
  /\ navEvents = 0

\* C12: lastInspectedEntryIndex decreases only in a cycle that reads a list
\* with length < lastInspectedEntryIndex + 1, or in reset(), which ends the
\* session.
C12_WatermarkMonotone ==
  [][lastInspectedEntryIndex' < lastInspectedEntryIndex =>
       \/ reset
       \/ (cycleInfo'.ran /\ Len(entries) < lastInspectedEntryIndex + 1)]_vars

\* A cycle saw a truncation and left the watermark lower than it was, on a
\* list that is not empty.
C12_Witness ==
  /\ cycleInfo.ran
  /\ cycleInfo.truncated
  /\ lastInspectedEntryIndex >= 0
  /\ lastInspectedEntryIndex < cycleInfo.watermark

\* C13: a cycle that sees a truncation, with stateError already set or not,
\* makes no revisit: it inspects the indices 0 .. Len(entries) - 1 once each,
\* in order, as fresh entries, leaves the watermark on the last of them, and
\* its queue holds only what it found incomplete itself.
C13_TruncationRestarts ==
  (cycleInfo.ran /\ cycleInfo.truncated) =>
    /\ Len(cycle) = Len(entries)
    /\ \A k \in DOMAIN cycle : cycle[k].pass = "fresh" /\ cycle[k].index = k - 1
    /\ lastInspectedEntryIndex = Len(entries) - 1
    /\ Range(incompleteEntryIndices) = FoundIncomplete(cycle)

\* A later truncation of the session (stateError already set) with indices
\* waiting in the queue and a list that is not empty.
C13_Witness ==
  /\ cycleInfo.ran
  /\ cycleInfo.truncated
  /\ ~cycleInfo.stateError
  /\ cycleInfo.queue # <<>>
  /\ Len(entries) >= 1
  /\ Len(cycle) = Len(entries)

\* C14 as claimed: one PerformanceStateError for each cycle that saw a
\* truncation.
C14_OnePerEpisode == errorEvents = truncPolls

\* C14: only the first truncation of a session is surfaced. Every later
\* cycle that sees a truncation restarts from index 0 and emits no
\* PerformanceStateError, so a session with one or more truncations has one.
C14_FirstEpisodeOnly ==
  /\ errorEvents <= 1
  /\ truncPolls >= 1 => (errorEvents = 1 /\ stateError)
  /\ (cycleInfo.ran /\ cycleInfo.truncated /\ truncPolls >= 2) =>
       /\ ~cycleInfo.stateError
       /\ lastInspectedEntryIndex = Len(entries) - 1

\* The second truncation has been recovered from and has emitted nothing.
C14_Witness ==
  /\ truncPolls = 2
  /\ errorEvents = 1
  /\ stateError
  /\ cycleInfo.ran
  /\ cycleInfo.truncated
  /\ ~cycleInfo.stateError
  /\ lastInspectedEntryIndex = Len(entries) - 1

\* The indices of the inspections of `log` made in pass `pass`, in order.
PassIndices(log, pass) ==
  LET sel == SelectSeq(log, LAMBDA r : r.pass = pass)
  IN [k \in DOMAIN sel |-> sel[k].index]

Incomplete(list, i) == i >= Len(list) \/ list[i + 1].responseEnd <= 0

\* C15: a cycle revisits exactly the queue it found (none of it after a
\* truncation), inspects no index twice, and every index its revisit found
\* still incomplete is in the queue it leaves.
C15_RevisitSnapshot ==
  cycleInfo.ran =>
    /\ PassIndices(cycle, "revisit") =
         (IF cycleInfo.truncated THEN <<>> ELSE cycleInfo.queue)
    /\ \A j, k \in DOMAIN cycle : cycle[j].index = cycle[k].index => j = k
    /\ \A k \in DOMAIN cycle :
         (cycle[k].pass = "revisit" /\ cycle[k].outcome = "incomplete")
           => cycle[k].index \in Range(incompleteEntryIndices)

\* A cycle that revisited an index, found it still incomplete and then
\* inspected a fresh entry: the index is queued again, once.
C15_Witness ==
  /\ cycleInfo.ran
  /\ \E j, k \in DOMAIN cycle :
       /\ j < k
       /\ cycle[j].pass = "revisit"
       /\ cycle[j].outcome = "incomplete"
       /\ cycle[k].pass = "fresh"
       /\ cycle[j].index \in Range(incompleteEntryIndices)

\* C16: in a cycle without truncation, a queued index leaves the queue
\* exactly when its inspection emitted an event or found the entry complete
\* and blacklisted, which is exactly when the entry read is complete; and no
\* cycle leaves an index in the queue for which it emitted an event.
C16_RemovedWhenSettled ==
  /\ (cycleInfo.ran /\ ~cycleInfo.truncated) =>
       \A i \in Range(cycleInfo.queue) :
         /\ i \notin Range(incompleteEntryIndices)
              <=> \E k \in DOMAIN cycle :
                    /\ cycle[k].index = i
                    /\ cycle[k].outcome \in { "emitted", "blacklisted" }
         /\ i \notin Range(incompleteEntryIndices) <=> ~Incomplete(entries, i)
  /\ cycleInfo.ran =>
       \A k \in DOMAIN cycle :
         cycle[k].outcome = "emitted" => cycle[k].index \notin Range(incompleteEntryIndices)

\* One cycle took an index out of the queue with an event, another without
\* (complete and blacklisted), and left a third one in.
C16_Witness ==
  /\ cycleInfo.ran
  /\ ~cycleInfo.truncated
  /\ \E i, j, l \in Range(cycleInfo.queue) :
       /\ EmittedFor(cycle, i) = 1
       /\ Blacklisted(entries, urlBlacklist, j)
       /\ ~Incomplete(entries, j)
       /\ { i, j } \cap Range(incompleteEntryIndices) = {}
       /\ l \in Range(incompleteEntryIndices)

\* C17: only a cycle or reset() changes the queue; every cycle queues every
\* index it inspects while the entry is incomplete, blacklisted or not; and a
\* cycle without truncation that finds an index in the queue whose entry is
\* still incomplete inspects it again, emits nothing for it and leaves it in
\* the queue.
C17_IncompleteStaysQueued ==
  /\ [][incompleteEntryIndices' # incompleteEntryIndices => (reset \/ cycleInfo'.ran)]_vars
  /\ [](cycleInfo.ran =>
          \A i \in Indices :
            (InspectedIn(cycle, i) /\ Incomplete(entries, i))
              => (i \in Range(incompleteEntryIndices) /\ EmittedFor(cycle, i) = 0))
  /\ []((cycleInfo.ran /\ ~cycleInfo.truncated) =>
          \A i \in Range(cycleInfo.queue) :
            Incomplete(entries, i)
              => /\ InspectedIn(cycle, i)
                 /\ i \in Range(incompleteEntryIndices)
                 /\ EmittedFor(cycle, i) = 0)

\* A blacklisted entry that is still incomplete was found in the queue,
\* revisited, and is in the queue again.
C17_Witness ==
  /\ cycleInfo.ran
  /\ ~cycleInfo.truncated
  /\ \E i \in Range(cycleInfo.queue) :
       /\ Incomplete(entries, i)
       /\ Blacklisted(entries, urlBlacklist, i)
       /\ InspectedIn(cycle, i)
       /\ i \in Range(incompleteEntryIndices)

\* C18: a cycle that sees a truncation emits an event for every index of the
\* list it reads whose entry is complete and not blacklisted, index 0
\* included when an event for index 0 was emitted before the list was
\* cleared; an index of the old queue beyond the new length is not inspected,
\* gets no event and is not in the queue afterwards.
C18_NoHistory ==
  (cycleInfo.ran /\ cycleInfo.truncated) =>
    /\ \A i \in Indices :
         EmittedFor(cycle, i) = (IF Emittable(entries, urlBlacklist, i) THEN 1 ELSE 0)
    /\ \A i \in Range(cycleInfo.queue) :
         i >= Len(entries) =>
           /\ ~InspectedIn(cycle, i)
           /\ i \notin Range(incompleteEntryIndices)

\* A second event for index 0, for an entry of the same name and timing as
\* the one emitted before the clear, while an index that was waiting in the
\* queue lies beyond the new list.
C18_Witness ==
  /\ cycleInfo.ran
  /\ cycleInfo.truncated
  /\ cycleInfo.emittedFirst
  /\ EmittedFor(cycle, 0) = 1
  /\ \E i \in Range(cycleInfo.queue) : i >= Len(entries)

\* C19: incompleteEntryIndices is strictly ascending, its members lie in
\* 0 .. lastInspectedEntryIndex, and after a cycle every member is an index
\* the cycle inspected and whose entry it read absent or with
\* responseEnd <= 0.
C19_QueueShape ==
  /\ \A j, k \in DOMAIN incompleteEntryIndices :
       j < k => incompleteEntryIndices[j] < incompleteEntryIndices[k]
  /\ \A k \in DOMAIN incompleteEntryIndices :
       /\ 0 <= incompleteEntryIndices[k]
       /\ incompleteEntryIndices[k] <= lastInspectedEntryIndex
  /\ cycleInfo.ran =>
       \A i \in Range(incompleteEntryIndices) :
         /\ Incomplete(entries, i)
         /\ \E k \in DOMAIN cycle : cycle[k].index = i /\ cycle[k].outcome = "incomplete"

\* A queue of two or more that a cycle filled from both passes: its first
\* member by the revisit, its last by the fresh loop.
C19_Witness ==
  /\ cycleInfo.ran
  /\ Len(incompleteEntryIndices) >= 2
  /\ incompleteEntryIndices[1] \in Range(PassIndices(cycle, "revisit"))
  /\ incompleteEntryIndices[Len(incompleteEntryIndices)] \in Range(PassIndices(cycle, "fresh"))

\* C20: a cycle emits PerformanceStateError only when the list it reads has
\* length < lastInspectedEntryIndex + 1. A cycle that reads a list of length
\* >= lastInspectedEntryIndex + 1, cleared and refilled or not, emits no
\* PerformanceStateError, does not lower the watermark, revisits the queue as
\* it found it, and inspects no index at or below the watermark that is not
\* in the queue: no event is emitted for such an index.
C20_LengthTestOnly ==
  /\ (cycleInfo.ran /\ cycleInfo.stateError) => Len(entries) < cycleInfo.watermark + 1
  /\ (cycleInfo.ran /\ Len(entries) >= cycleInfo.watermark + 1) =>
       /\ ~cycleInfo.stateError
       /\ ~cycleInfo.truncated
       /\ lastInspectedEntryIndex = Len(entries) - 1
       /\ lastInspectedEntryIndex >= cycleInfo.watermark
       /\ PassIndices(cycle, "revisit") = cycleInfo.queue
       /\ \A i \in Indices :
            (i <= cycleInfo.watermark /\ i \notin Range(cycleInfo.queue))
              => (~InspectedIn(cycle, i) /\ EmittedFor(cycle, i) = 0)

\* The first cycle after a clear (the list had an event for index 0 before
\* it was cleared) reads a refilled list: no truncation is seen, no
\* PerformanceStateError exists, and a new entry that is complete and not
\* blacklisted, at or below the watermark and not in the queue, gets no event.
C20_Witness ==
  /\ cycleInfo.ran
  /\ cleared
  /\ cycleInfo.emittedFirst
  /\ ~cycleInfo.truncated
  /\ errorEvents = 0
  /\ \E i \in Indices :
       /\ i <= cycleInfo.watermark
       /\ i \notin Range(cycleInfo.queue)
       /\ Emittable(entries, urlBlacklist, i)
       /\ EmittedFor(cycle, i) = 0

====
